---- MODULE Spec2Model ----
(***************************************************************************)
(* A model of adaptFinder (src/adaptFinder.cpp): k-mer packing, the        *)
(* forbidden k-mer list, read sampling, exact k-mer counting, candidate    *)
(* selection, the parallel approximate count and the driver in main.       *)
(*                                                                         *)
(* A DnaString is a sequence of symbol codes (A=0, C=1, G=2, T=3); SeqAn   *)
(* stores one symbol per byte, so a byte read outside a string may hold    *)
(* any code.  A uint64_t is a sequence of WordBits bits, least significant *)
(* bit first, so that shifts drop bits exactly as the machine word does.   *)
(***************************************************************************)
EXTENDS Integers, Sequences, FiniteSets, TLC

VARIABLES
    \* dna2int / int2dna applied to one string
    c_seq, c_value, c_out, c_pc,
    \* parse_kmer_list
    p_file, p_i, p_kmer_set, p_pc,
    \* sampleSequences
    s_reads, s_nb_sample, s_cut, s_bot, s_vec, s_i, s_nb_seq, s_sample, s_ids, s_pc,
    \* count_kmers
    k_seqs, k_k, k_threshold, k_kmer_set, k_base, k_idx, k_i, k_n, k_count, k_den, k_extr, k_pc,
    \* get_most_frequent / get_solid_kmers applied to one table
    t_fn, t_table, t_arg, t_out, t_pc,
    \* errorCount: the call, the shared data, and each worker thread's locals
    e_exact, e_sample_size, e_occ, e_nb_thread, e_pc, e_index, e_next, e_results, e_lock,
    e_tpc, e_km, e_tcount, e_left, e_total,
    \* main: the options, and the driver's variables
    m_cfg, m_sn, m_lc, m_kmer_set, m_seqs, m_pc, m_which_end, m_bottom, m_sample, m_count,
    m_first_n_vector, m_error_counter, m_sorted_error_count, m_warned, m_outside, m_exit

codecVars == <<c_seq, c_value, c_out, c_pc>>
parseVars == <<p_file, p_i, p_kmer_set, p_pc>>
sampleVars == <<s_reads, s_nb_sample, s_cut, s_bot, s_vec, s_i, s_nb_seq, s_sample, s_ids, s_pc>>
countVars == <<k_seqs, k_k, k_threshold, k_kmer_set, k_base, k_idx, k_i, k_n, k_count, k_den,
               k_extr, k_pc>>
selectVars == <<t_fn, t_table, t_arg, t_out, t_pc>>
errVars == <<e_exact, e_sample_size, e_occ, e_nb_thread, e_pc, e_index, e_next, e_results, e_lock,
             e_tpc, e_km, e_tcount, e_left, e_total>>
mainVars == <<m_cfg, m_sn, m_lc, m_kmer_set, m_seqs, m_pc, m_which_end, m_bottom, m_sample, m_count,
              m_first_n_vector, m_error_counter, m_sorted_error_count, m_warned, m_outside, m_exit>>
vars == <<codecVars, parseVars, sampleVars, countVars, selectVars, errVars, mainVars>>

----------------------------------------------------------------------------
(* Bounds of the model *)

\* all nucleotide strings up to this length are encoded
ShortLen == 3
\* patterned nucleotide strings are encoded up to this length
MaxStrLen == 33
\* longest line of a forbidden k-mer file
MaxLineLen == 2
\* most lines of a forbidden k-mer file
MaxLines == 2
\* most reads of a collection that is sampled
MaxReads == 2
\* longest read of a collection that is sampled
MaxReadLen == 3
\* largest sample_length (cut size)
MaxCut == 2
\* most windows handed to count_kmers
MaxWindows == 2
\* longest window handed to count_kmers
MaxWindowLen == 3
\* largest k-mer size counted
MaxK == 3
\* most keys of a table handed to the candidate selection
MaxKeys == 3
\* largest count of a table handed to the candidate selection
MaxCount == 2
\* most worker threads of the approximate count
MaxThreads == 2
\* most candidate k-mers of the approximate count
MaxCand == 2
\* most sampled windows of the approximate count
MaxSample == 2

----------------------------------------------------------------------------
(* Machine words *)

\* width of uint64_t
WordBits == 64

Min(a, b) == IF a < b THEN a ELSE b
Max(a, b) == IF a > b THEN a ELSE b

RECURSIVE Pow2(_)
Pow2(n) == IF n = 0 THEN 1 ELSE 2 * Pow2(n - 1)

\* bit j (0 = lowest) of a small natural number
BitOf(b, j) == IF j > 20 THEN 0 ELSE (b \div Pow2(j)) % 2

Zero64 == [i \in 1..WordBits |-> 0]

\* v << 2 on a uint64_t: the two highest bits are lost
Shl2(v) == [i \in 1..WordBits |-> IF i <= 2 THEN 0 ELSE v[i - 2]]

\* v >> 2 on a uint64_t
Shr2(v) == [i \in 1..WordBits |-> IF i + 2 <= WordBits THEN v[i + 2] ELSE 0]

\* v | (uint8_t) b
OrByte(v, b) == [i \in 1..WordBits |-> IF i <= 8 THEN Max(v[i], BitOf(b, i - 1)) ELSE v[i]]

\* a & b on two uint64_t
And64(a, b) == [i \in 1..WordBits |-> a[i] * b[i]]

\* v & 3 and v & 15 as numbers
Low2(v) == v[1] + 2 * v[2]
Low4(v) == v[1] + 2 * v[2] + 4 * v[3] + 8 * v[4]

----------------------------------------------------------------------------
(* KmerCodec *)

\* const std::string DNA = "ACGT"
DNA == <<"A", "C", "G", "T">>

\* SeqAn's conversion of a char to Dna: A, C, G, T map to 0..3 and every
\* other character is converted to 'A' (0)
CharToDna(ch) ==
    CASE ch = "A" -> 0
      [] ch = "C" -> 1
      [] ch = "G" -> 2
      [] ch = "T" -> 3
      [] OTHER -> 0

\* DnaString(std::string)
ToDnaString(chars) == [i \in 1..Len(chars) |-> CharToDna(chars[i])]

RECURSIVE dna2int_from(_, _, _)
dna2int_from(seq, i, value) ==
    IF i > Len(seq) THEN value
    ELSE dna2int_from(seq, i + 1, OrByte(Shl2(value), seq[i]))

dna2int(seq) == dna2int_from(seq, 1, Zero64)

RECURSIVE int2dna_from(_, _, _)
int2dna_from(value, n, chars) ==
    IF n = 0 THEN ToDnaString(chars)
    ELSE int2dna_from(Shr2(value), n - 1, <<DNA[Low2(value) + 1]>> \o chars)

\* a likely slip: the symbol appended instead of prepended
RECURSIVE int2dna_append_from(_, _, _)
int2dna_append_from(value, n, chars) ==
    IF n = 0 THEN ToDnaString(chars)
    ELSE int2dna_append_from(Shr2(value), n - 1, chars \o <<DNA[Low2(value) + 1]>>)

int2dna_append(value, k) == int2dna_append_from(value, k, <<>>)

int2dna(value, k) == int2dna_from(value, k, <<>>)

\* the nucleotide strings the codec is applied to
Nucleotides == 0..3

RECURSIVE StringsUpTo(_, _)
StringsUpTo(alphabet, n) ==
    IF n = 0 THEN {<<>>}
    ELSE LET shorter == StringsUpTo(alphabet, n - 1)
         IN  shorter \cup {Append(s, a) : s \in {t \in shorter : Len(t) = n - 1}, a \in alphabet}

PatternedStrings ==
    {[i \in 1..n |-> IF i = 1 THEN a ELSE IF i % 2 = 0 THEN b ELSE c] :
        n \in 2..MaxStrLen, a \in Nucleotides, b \in Nucleotides, c \in Nucleotides}

CodecInputs == StringsUpTo(Nucleotides, ShortLen) \cup PatternedStrings

CodecInit ==
    /\ c_seq \in CodecInputs
    /\ c_value = Zero64
    /\ c_out = <<>>
    /\ c_pc = "start"

CodecIdle ==
    /\ c_seq = <<>>
    /\ c_value = <<>>
    /\ c_out = <<>>
    /\ c_pc = "idle"

Encode ==
    /\ c_pc = "start"
    /\ c_value' = dna2int(c_seq)
    /\ c_pc' = "encoded"
    /\ UNCHANGED <<c_seq, c_out, parseVars, sampleVars, countVars, selectVars, errVars, mainVars>>

Decode ==
    /\ c_pc = "encoded"
    /\ c_out' = int2dna(c_value, Len(c_seq))
    /\ c_pc' = "decoded"
    /\ UNCHANGED <<c_seq, c_value, parseVars, sampleVars, countVars, selectVars, errVars, mainVars>>

----------------------------------------------------------------------------
(* parse_kmer_list *)

FileChars == {"A", "C", "G", "T", "N"}

KmerFiles == {f \in StringsUpTo(StringsUpTo(FileChars, MaxLineLen), MaxLines) : TRUE}

\* a line that is a k-mer: not empty and made of A, C, G, T only
ValidKmerLine(line) == Len(line) > 0 /\ \A i \in 1..Len(line) : line[i] \in {"A", "C", "G", "T"}

ParseInit ==
    /\ p_file \in [open : BOOLEAN, lines : KmerFiles]
    /\ p_file.open \/ p_file.lines = <<>>
    /\ p_i = 0
    /\ p_kmer_set = {}
    /\ p_pc = "open"

ParseIdle ==
    /\ p_file = [open |-> FALSE, lines |-> <<>>]
    /\ p_i = 0
    /\ p_kmer_set = {}
    /\ p_pc = "idle"

\* the value one line of the file adds to the set
kmer_of_line(line) == dna2int(ToDnaString(line))

ParseOpen ==
    /\ p_pc = "open"
    /\ p_file.open
    /\ p_pc' = "lines"
    /\ UNCHANGED <<p_file, p_i, p_kmer_set, codecVars, sampleVars, countVars, selectVars, errVars, mainVars>>

ParseOpenFailed ==
    /\ p_pc = "open"
    /\ ~p_file.open
    /\ p_pc' = "exit1"
    /\ UNCHANGED <<p_file, p_i, p_kmer_set, codecVars, sampleVars, countVars, selectVars, errVars, mainVars>>

ParseLine ==
    /\ p_pc = "lines"
    /\ p_i < Len(p_file.lines)
    /\ p_i' = p_i + 1
    /\ p_kmer_set' = p_kmer_set \cup {kmer_of_line(p_file.lines[p_i + 1])}
    /\ UNCHANGED <<p_file, p_pc, codecVars, sampleVars, countVars, selectVars, errVars, mainVars>>

ParseReturn ==
    /\ p_pc = "lines"
    /\ p_i = Len(p_file.lines)
    /\ p_pc' = "returned"
    /\ UNCHANGED <<p_file, p_i, p_kmer_set, codecVars, sampleVars, countVars, selectVars, errVars, mainVars>>

----------------------------------------------------------------------------
(* sampleSequences *)

\* the bytes a read outside a string's buffer may deliver: a symbol code or not
StrayBytes == {1, 7}

\* a read of length n; reads of different lengths differ in their symbols
ReadOfLength(n) == [i \in 1..n |-> (i - 1 + n) % 4]

ReadCollections == StringsUpTo({ReadOfLength(n) : n \in 0..MaxReadLen}, MaxReads)

\* std::iota then std::shuffle: the orders of the read ids 0..size-1
AnyOrders(size) == [1..size -> 0..(size - 1)]

ShuffledOrders(size) == {f \in [1..size -> 0..(size - 1)] : \A a, b \in 1..size : f[a] = f[b] => a = b}

\* prefix(seq, n)
Prefix(seq, n) == SubSeq(seq, 1, n)

\* suffix(seq, begin) for a begin position inside the string
Suffix(seq, begin) == SubSeq(seq, begin + 1, Len(seq))

\* std::min(length(read), cut_size)
current_cut_size(read, cut_size) == Min(Len(read), cut_size)

\* length(read) - 1 - current_cut_size, as a signed number: -1 stands for the
\* uint64_t value 2^64 - 1 the subtraction wraps to
suffix_begin(read, cut_size) == Len(read) - 1 - current_cut_size(read, cut_size)

\* the windows one read can yield.  A suffix that begins at 2^64 - 1 is a
\* segment of length(read) + 1 symbols starting one byte before the buffer.
WindowsOf(read, cut_size, bot) ==
    IF ~bot THEN {Prefix(read, current_cut_size(read, cut_size))}
    ELSE IF suffix_begin(read, cut_size) >= 0 THEN {Suffix(read, suffix_begin(read, cut_size))}
    ELSE {<<b>> \o read : b \in StrayBytes}

\* whether taking the window reads outside the read's buffer
WindowOutOfBounds(read, cut_size, bot) == bot /\ suffix_begin(read, cut_size) < 0

SampleInit ==
    /\ s_reads \in ReadCollections
    /\ s_nb_sample \in 0..(MaxReads + 1)
    /\ s_cut \in 0..MaxCut
    /\ s_bot \in BOOLEAN
    /\ s_vec = <<>>
    /\ s_i = 0
    /\ s_nb_seq = 0
    /\ s_sample = <<>>
    /\ s_ids = <<>>
    /\ s_pc = "shuffle"

SampleIdle ==
    /\ s_reads = <<>>
    /\ s_nb_sample = 0
    /\ s_cut = 0
    /\ s_bot = FALSE
    /\ s_vec = <<>>
    /\ s_i = 0
    /\ s_nb_seq = 0
    /\ s_sample = <<>>
    /\ s_ids = <<>>
    /\ s_pc = "idle"

SampleShuffle ==
    /\ s_pc = "shuffle"
    /\ s_vec' \in ShuffledOrders(Len(s_reads))
    /\ s_pc' = "loop"
    /\ UNCHANGED <<s_reads, s_nb_sample, s_cut, s_bot, s_i, s_nb_seq, s_sample, s_ids,
                   codecVars, parseVars, countVars, selectVars, errVars, mainVars>>

\* one turn of the while loop
SampleFetch ==
    /\ s_pc = "loop"
    /\ s_nb_seq < s_nb_sample /\ s_i < Len(s_reads)
    /\ LET seq_id == s_vec[s_i + 1]
           read == s_reads[seq_id + 1]
       IN  /\ \E w \in WindowsOf(read, s_cut, s_bot) : s_sample' = Append(s_sample, w)
           /\ s_ids' = Append(s_ids, seq_id)
    /\ s_nb_seq' = s_nb_seq + 1
    /\ s_i' = s_i + 1
    /\ UNCHANGED <<s_reads, s_nb_sample, s_cut, s_bot, s_vec, s_pc, codecVars, parseVars, countVars, selectVars, errVars, mainVars>>

\* the read outside the buffer faults instead of delivering a byte
SampleFault ==
    /\ s_pc = "loop"
    /\ s_nb_seq < s_nb_sample /\ s_i < Len(s_reads)
    /\ WindowOutOfBounds(s_reads[s_vec[s_i + 1] + 1], s_cut, s_bot)
    /\ s_pc' = "crashed"
    /\ UNCHANGED <<s_reads, s_nb_sample, s_cut, s_bot, s_vec, s_i, s_nb_seq, s_sample, s_ids,
                   codecVars, parseVars, countVars, selectVars, errVars, mainVars>>

SampleReturn ==
    /\ s_pc = "loop"
    /\ ~(s_nb_seq < s_nb_sample /\ s_i < Len(s_reads))
    /\ s_pc' = "returned"
    /\ UNCHANGED <<s_reads, s_nb_sample, s_cut, s_bot, s_vec, s_i, s_nb_seq, s_sample, s_ids,
                   codecVars, parseVars, countVars, selectVars, errVars, mainVars>>

----------------------------------------------------------------------------
(* haveLowComplexity, adjust_threshold, isForbiddenKmer *)

\* a float threshold is the exact fraction <<numerator, denominator>>
\* adjust_threshold: c_old * (k_new - 2 + 1)^2 / (k_old - 2 + 1)^2
adjust_threshold(c_old, k_old, k_new) ==
    <<c_old[1] * (k_new - 2 + 1) * (k_new - 2 + 1), c_old[2] * (k_old - 2 + 1) * (k_old - 2 + 1)>>

RECURSIVE dimer_counts_from(_, _, _)
dimer_counts_from(kmer, n, counts) ==
    IF n <= 0 THEN counts
    ELSE dimer_counts_from(Shr2(kmer), n - 1, [counts EXCEPT ![Low4(kmer)] = @ + 1])

\* the 16 dimer counters after the k-1 turns of the loop
dimer_counts(kmer, k) == dimer_counts_from(kmer, k - 1, [c \in 0..15 |-> 0])

RECURSIVE complexity_sum_from(_, _)
complexity_sum_from(counts, c) ==
    IF c > 15 THEN 0
    ELSE (IF counts[c] = 0 THEN 0 ELSE counts[c] * (counts[c] - 1)) + complexity_sum_from(counts, c + 1)

\* sum of v * (v - 1); for v = 0 the uint64_t product 0 * (2^64 - 1) is 0
complexity_sum(kmer, k) == complexity_sum_from(dimer_counts(kmer, k), 0)

\* 2 * (k - 2), the divisor of the score
complexity_denominator(k) == 2 * (k - 2)

\* s >= threshold with s = sum / float(2 * (k - 2)).  With a divisor of 0 the
\* IEEE quotient is NaN for sum = 0 (no comparison holds) and +inf otherwise.
haveLowComplexity(kmer, k, threshold) ==
    LET sum == complexity_sum(kmer, k)
        den == complexity_denominator(k)
    IN  IF den = 0 THEN sum > 0
        ELSE sum * threshold[2] >= threshold[1] * den

\* what a call can return: the division by a zero float is undefined in C++;
\* an IEEE build gives the result above, a build that assumes finite
\* arithmetic may take either branch of the comparison
LowComplexityResults(kmer, k, threshold) ==
    IF complexity_denominator(k) = 0 THEN BOOLEAN
    ELSE {haveLowComplexity(kmer, k, threshold)}

isForbiddenKmer(kmer, kmer_set) == kmer \in kmer_set

----------------------------------------------------------------------------
(* count_kmers *)

\* bits of the significand of a double
DoubleMantissa == 53

WordOfBits(S) == [i \in 1..WordBits |-> IF i \in S THEN 1 ELSE 0]

\* uint64_t base = std::pow(2, 2*k) - 1: the subtraction is done in double, so
\* 2^(2k) - 1 is exact up to 53 bits and rounds to 2^(2k) above; 2^64 is
\* outside uint64_t and its conversion is undefined (0, 2^63 or 2^64 - 1)
BaseMasks(k) ==
    IF 2 * k <= DoubleMantissa THEN {WordOfBits(1..(2 * k))}
    ELSE IF 2 * k < WordBits THEN {WordOfBits({2 * k + 1})}
    ELSE {Zero64, WordOfBits({WordBits}), WordOfBits(1..WordBits)}

\* int i = k-1
first_index_off_by_one(k) == k - 2

first_index(k) == k - 1

\* the values n can start from: dna2int(prefix(seq, k-1)); a window shorter
\* than k-1 is read past its end
FirstKmers(seq, k) ==
    IF Len(seq) >= k - 1 THEN {dna2int(Prefix(seq, k - 1))}
    ELSE {dna2int(seq \o [j \in 1..(k - 1 - Len(seq)) |-> b]) : b \in StrayBytes}

\* n <<= 2; n = (n & base) | (uint8_t)(seq[i])
next_kmer(n, base, symbol) == OrByte(And64(Shl2(n), base), symbol)

\* count[n] += 1
Increment(count, n) ==
    IF n \in DOMAIN count THEN [count EXCEPT ![n] = @ + 1]
    ELSE [x \in DOMAIN count \cup {n} |-> IF x = n THEN 1 ELSE count[x]]

EmptyCounter == [x \in {} |-> 0]

\* windows of length n: one symbol repeated, two symbols alternating, pairs alternating
WindowPatterns(n) ==
    {[i \in 1..n |-> 0], [i \in 1..n |-> (i - 1) % 2], [i \in 1..n |-> ((i - 1) \div 2) % 2]}

\* the windows counted, among them windows whose first byte came from outside a read
CountWindows ==
    UNION {WindowPatterns(n) : n \in 0..MaxWindowLen}
        \cup {<<b>> \o w : b \in StrayBytes \ Nucleotides, w \in WindowPatterns(0) \cup WindowPatterns(2)}

\* low complexity thresholds given for k = 16: the default 1.5, and 0
LcValues == {<<3, 2>>, <<0, 1>>}

\* the thresholds tried with a k-mer size: where the score has a zero divisor
\* the threshold has no part in the results, and one value stands for all
ThresholdsFor(k) == IF complexity_denominator(k) = 0 THEN {<<3, 2>>} ELSE LcValues

\* no forbidden k-mer, or the alternating one
ForbiddenChoices(k) == {{}, {dna2int([i \in 1..k |-> (i - 1) % 2])}}

\* the sizes where 2^(2k) - 1 first needs more bits than a double has, and
\* where 2^(2k) first leaves uint64_t: 27 and 32
WideK == {(DoubleMantissa + 1) \div 2, WordBits \div 2}

\* for a wide k, one window of k or k+1 symbols
WideWindows(k) == {<<w>> : w \in WindowPatterns(k) \cup WindowPatterns(k + 1)}

\* the forbidden sets tried with a k-mer size; none where every k-mer counted
\* already has two outcomes
ForbiddenFor(k) == IF complexity_denominator(k) = 0 THEN {{}} ELSE ForbiddenChoices(k)

CountInit ==
    /\ \/ k_k \in 2..MaxK /\ k_seqs \in StringsUpTo(CountWindows, MaxWindows)
       \/ k_k \in WideK /\ k_seqs \in WideWindows(k_k)
    /\ \E lc \in ThresholdsFor(k_k) : k_threshold = adjust_threshold(lc, 16, k_k)
    /\ k_kmer_set \in ForbiddenFor(k_k)
    /\ k_base = <<>>
    /\ k_idx = 0
    /\ k_i = 0
    /\ k_n = <<>>
    /\ k_count = EmptyCounter
    /\ k_den = 1
    /\ k_extr = <<>>
    /\ k_pc = "start"

CountIdle ==
    /\ k_seqs = <<>>
    /\ k_k = 0
    /\ k_threshold = <<0, 1>>
    /\ k_kmer_set = {}
    /\ k_base = <<>>
    /\ k_idx = 0
    /\ k_i = 0
    /\ k_n = <<>>
    /\ k_count = EmptyCounter
    /\ k_den = 1
    /\ k_extr = <<>>
    /\ k_pc = "idle"

CountStart ==
    /\ k_pc = "start"
    /\ k_base' \in BaseMasks(k_k)
    /\ k_pc' = "window"
    /\ UNCHANGED <<k_seqs, k_k, k_threshold, k_kmer_set, k_idx, k_i, k_n, k_count, k_den, k_extr,
                   codecVars, parseVars, sampleVars, selectVars, errVars, mainVars>>

\* the first k-1 symbols of the next window
CountFirst ==
    /\ k_pc = "window"
    /\ k_idx < Len(k_seqs)
    /\ k_n' \in FirstKmers(k_seqs[k_idx + 1], k_k)
    /\ k_i' = first_index(k_k)
    /\ k_extr' = Append(k_extr, 0)
    /\ k_pc' = "slide"
    /\ UNCHANGED <<k_seqs, k_k, k_threshold, k_kmer_set, k_base, k_idx, k_count, k_den,
                   codecVars, parseVars, sampleVars, selectVars, errVars, mainVars>>

\* reading the prefix of a window shorter than k-1 faults
CountFault ==
    /\ k_pc = "window"
    /\ k_idx < Len(k_seqs)
    /\ Len(k_seqs[k_idx + 1]) < k_k - 1
    /\ k_pc' = "crashed"
    /\ UNCHANGED <<k_seqs, k_k, k_threshold, k_kmer_set, k_base, k_idx, k_i, k_n, k_count, k_den,
                   k_extr, codecVars, parseVars, sampleVars, selectVars, errVars, mainVars>>

\* one turn of the while loop: the next k-mer is extracted, filtered, counted
CountSlide ==
    /\ k_pc = "slide"
    /\ k_i < Len(k_seqs[k_idx + 1])
    /\ LET n == next_kmer(k_n, k_base, k_seqs[k_idx + 1][k_i + 1])
       IN  /\ k_n' = n
           /\ \E low \in LowComplexityResults(n, k_k, k_threshold) :
                 k_count' = IF ~low /\ ~isForbiddenKmer(n, k_kmer_set)
                            THEN Increment(k_count, n)
                            ELSE k_count
    /\ k_den' = complexity_denominator(k_k)
    /\ k_extr' = [k_extr EXCEPT ![k_idx + 1] = @ + 1]
    /\ k_i' = k_i + 1
    /\ UNCHANGED <<k_seqs, k_k, k_threshold, k_kmer_set, k_base, k_idx, k_pc,
                   codecVars, parseVars, sampleVars, selectVars, errVars, mainVars>>

CountNextWindow ==
    /\ k_pc = "slide"
    /\ ~(k_i < Len(k_seqs[k_idx + 1]))
    /\ k_idx' = k_idx + 1
    /\ k_pc' = "window"
    /\ UNCHANGED <<k_seqs, k_k, k_threshold, k_kmer_set, k_base, k_i, k_n, k_count, k_den, k_extr,
                   codecVars, parseVars, sampleVars, selectVars, errVars, mainVars>>

CountReturn ==
    /\ k_pc = "window"
    /\ k_idx = Len(k_seqs)
    /\ k_pc' = "returned"
    /\ UNCHANGED <<k_seqs, k_k, k_threshold, k_kmer_set, k_base, k_idx, k_i, k_n, k_count, k_den,
                   k_extr, codecVars, parseVars, sampleVars, selectVars, errVars, mainVars>>

----------------------------------------------------------------------------
(* get_most_frequent, get_solid_kmers *)

\* the lambda given to std::sort
sort_ascending(x, y) == x[2] < y[2]

sort_compare(x, y) == x[2] > y[2]

\* the (key, count) pairs of a table, as the pair_vector is built from the map
PairsOf(table) == {<<x, table[x]>> : x \in DOMAIN table}

\* what std::sort can leave: every pair once, no pair before one it must follow;
\* pairs of equal count come in any order
SortedOrders(table) ==
    LET n == Cardinality(DOMAIN table)
    IN  {v \in [1..n -> PairsOf(table)] :
            /\ \A a, b \in 1..n : v[a] = v[b] => a = b
            /\ \A a, b \in 1..n : a < b => ~sort_compare(v[b], v[a])}

\* if (kmer_count.second > solid_km)
solid_test_strict(count, solid_km) == count > solid_km

\* if (kmer_count.second >= solid_km)
solid_test(count, solid_km) == count >= solid_km

\* the loop over the sorted vector: limit++ until the first count below solid_km
RECURSIVE solid_limit(_, _, _)
solid_limit(kmer_vec, solid_km, pos) ==
    IF pos > Len(kmer_vec) THEN 0
    ELSE IF solid_test(kmer_vec[pos][2], solid_km) THEN 1 + solid_limit(kmer_vec, solid_km, pos + 1)
    ELSE 0

get_solid_kmers(count_map, solid_km) ==
    {Prefix(v, solid_limit(v, solid_km, 1)) : v \in SortedOrders(count_map)}

get_most_frequent(count_map, limit) ==
    {IF Len(v) > limit THEN Prefix(v, limit) ELSE v : v \in SortedOrders(count_map)}

\* the i-th of the 2-mers AA, AC, AG, AT, CA, ... in packed form
Kmer2(i) == dna2int(<<((i - 1) \div 4) % 4, (i - 1) % 4>>)

KeyPool == {Kmer2(i) : i \in 1..MaxKeys}

Tables == UNION {[keys -> 0..MaxCount] : keys \in SUBSET KeyPool}

SelectInit ==
    /\ t_fn \in {"get_most_frequent", "get_solid_kmers"}
    /\ t_table \in Tables
    /\ t_arg \in 0..(IF t_fn = "get_most_frequent" THEN MaxKeys + 1 ELSE MaxCount + 1)
    /\ t_out = <<>>
    /\ t_pc = "call"

SelectIdle ==
    /\ t_fn = "none"
    /\ t_table = EmptyCounter
    /\ t_arg = 0
    /\ t_out = <<>>
    /\ t_pc = "idle"

MostFrequent ==
    /\ t_pc = "call"
    /\ t_fn = "get_most_frequent"
    /\ t_out' \in get_most_frequent(t_table, t_arg)
    /\ t_pc' = "returned"
    /\ UNCHANGED <<t_fn, t_table, t_arg, codecVars, parseVars, sampleVars, countVars, errVars, mainVars>>

SolidKmers ==
    /\ t_pc = "call"
    /\ t_fn = "get_solid_kmers"
    /\ t_out' \in get_solid_kmers(t_table, t_arg)
    /\ t_pc' = "returned"
    /\ UNCHANGED <<t_fn, t_table, t_arg, codecVars, parseVars, sampleVars, countVars, errVars, mainVars>>

----------------------------------------------------------------------------
(* errorCount *)

\* const uint8_t MAXERR = 2
MAXERR == 2

Threads == 1..e_nb_thread

\* the occurrences the search delivers for one candidate, as (read id, errors);
\* a window can be hit again at the same or at another number of errors
OccurrenceLists(sample_size) ==
    IF sample_size = 0 THEN {<<>>}
    ELSE {<<>>,
          <<<<0, 0>>, <<0, 0>>>>,
          <<<<0, 1>>, <<sample_size - 1, MAXERR>>>>}

\* a candidate list of n distinct k-mers in descending order of count
CandidateList(n) == [i \in 1..n |-> <<Kmer2(i), n - i + 1>>]

\* tcount[i] = bit_field(sample_size, false) skipped once the fields have their size
keep_bit_fields(tcount, sample_size) ==
    IF Len(tcount[1]) = sample_size THEN tcount
    ELSE [e \in 1..(MAXERR + 1) |-> [r \in 1..sample_size |-> FALSE]]

\* for (i < 3) tcount[i] = bit_field(sample_size, false)
reset_bit_fields(tcount, sample_size) ==
    [e \in 1..(MAXERR + 1) |-> [r \in 1..sample_size |-> FALSE]]

\* tcount[errors][read_id] = true
set_bit(tcount, errors, read_id) == [tcount EXCEPT ![errors + 1][read_id + 1] = TRUE]

RECURSIVE vectorSum_from(_, _)
vectorSum_from(vec, n) == IF n = 0 THEN 0 ELSE (IF vec[n] THEN 1 ELSE 0) + vectorSum_from(vec, n - 1)

vectorSum(vec) == vectorSum_from(vec, Len(vec))

\* total += vectorSum(bit_count) over the three fields
total_of(tcount) == vectorSum(tcount[1]) + vectorSum(tcount[2]) + vectorSum(tcount[3])

\* results[kmer] = total
Store(results, kmer, total) ==
    [x \in DOMAIN results \cup {kmer} |-> IF x = kmer THEN total ELSE results[x]]

ErrInit ==
    /\ e_sample_size \in 0..MaxSample
    /\ \E n \in 0..MaxCand :
          /\ e_exact = CandidateList(n)
          /\ e_occ \in [1..n -> OccurrenceLists(e_sample_size)]
    /\ e_nb_thread \in 1..MaxThreads
    /\ e_pc = "index"
    /\ e_index = "none"
    /\ e_next = 0
    /\ e_results = EmptyCounter
    /\ e_lock = 0
    /\ e_tpc = [t \in Threads |-> "unborn"]
    /\ e_km = [t \in Threads |-> 0]
    /\ e_tcount = [t \in Threads |-> <<>>]
    /\ e_left = [t \in Threads |-> {}]
    /\ e_total = [t \in Threads |-> 0]

ErrIdle ==
    /\ e_exact = <<>>
    /\ e_sample_size = 0
    /\ e_occ = <<>>
    /\ e_nb_thread = 0
    /\ e_pc = "idle"
    /\ e_index = "none"
    /\ e_next = 0
    /\ e_results = EmptyCounter
    /\ e_lock = 0
    /\ e_tpc = <<>>
    /\ e_km = <<>>
    /\ e_tcount = <<>>
    /\ e_left = <<>>
    /\ e_total = <<>>

notErrVars == <<codecVars, parseVars, sampleVars, countVars, selectVars, mainVars>>

\* index_t index(sequences); indexCreate(index); counter results
ErrIndex ==
    /\ e_pc = "index"
    /\ e_index' = "built"
    /\ e_results' = EmptyCounter
    /\ e_pc' = "fork"
    /\ UNCHANGED <<e_exact, e_sample_size, e_occ, e_nb_thread, e_next, e_lock,
                   e_tpc, e_km, e_tcount, e_left, e_total, notErrVars>>

\* #pragma omp parallel: every thread starts with its own three empty bit fields
ErrFork ==
    /\ e_pc = "fork"
    /\ e_tpc' = [t \in Threads |-> "claim"]
    /\ e_tcount' = [t \in Threads |-> <<<<>>, <<>>, <<>>>>]
    /\ e_next' = 0
    /\ e_pc' = "parallel"
    /\ UNCHANGED <<e_exact, e_sample_size, e_occ, e_nb_thread, e_index, e_results, e_lock,
                   e_km, e_left, e_total, notErrVars>>

\* schedule(dynamic): the thread takes the next candidate nobody has taken
ErrClaim(t) ==
    /\ e_pc = "parallel" /\ e_tpc[t] = "claim"
    /\ e_next < Len(e_exact)
    /\ e_km' = [e_km EXCEPT ![t] = e_next]
    /\ e_next' = e_next + 1
    /\ e_tpc' = [e_tpc EXCEPT ![t] = "reset"]
    /\ UNCHANGED <<e_exact, e_sample_size, e_occ, e_nb_thread, e_pc, e_index, e_results, e_lock,
                   e_tcount, e_left, e_total, notErrVars>>

\* no candidate is left: the thread waits at the end of the loop
ErrIdleThread(t) ==
    /\ e_pc = "parallel" /\ e_tpc[t] = "claim"
    /\ ~(e_next < Len(e_exact))
    /\ e_tpc' = [e_tpc EXCEPT ![t] = "done"]
    /\ UNCHANGED <<e_exact, e_sample_size, e_occ, e_nb_thread, e_pc, e_index, e_next, e_results,
                   e_lock, e_km, e_tcount, e_left, e_total, notErrVars>>

\* the bit fields are set up for the candidate and the search starts
ErrReset(t) ==
    /\ e_pc = "parallel" /\ e_tpc[t] = "reset"
    /\ e_tcount' = [e_tcount EXCEPT ![t] = reset_bit_fields(@, e_sample_size)]
    /\ e_left' = [e_left EXCEPT ![t] = DOMAIN e_occ[e_km[t] + 1]]
    /\ e_tpc' = [e_tpc EXCEPT ![t] = "find"]
    /\ UNCHANGED <<e_exact, e_sample_size, e_occ, e_nb_thread, e_pc, e_index, e_next, e_results,
                   e_lock, e_km, e_total, notErrVars>>

\* the delegate is handed one more occurrence, in whatever order the search finds them
ErrOccurrence(t) ==
    /\ e_pc = "parallel" /\ e_tpc[t] = "find"
    /\ \E j \in e_left[t] :
          LET occ == e_occ[e_km[t] + 1][j]
          IN  /\ e_tcount' = [e_tcount EXCEPT ![t] = set_bit(@, occ[2], occ[1])]
              /\ e_left' = [e_left EXCEPT ![t] = @ \ {j}]
    /\ UNCHANGED <<e_exact, e_sample_size, e_occ, e_nb_thread, e_pc, e_index, e_next, e_results,
                   e_lock, e_tpc, e_km, e_total, notErrVars>>

\* the search is over: the three fields are summed
ErrTotal(t) ==
    /\ e_pc = "parallel" /\ e_tpc[t] = "find"
    /\ e_left[t] = {}
    /\ e_total' = [e_total EXCEPT ![t] = total_of(e_tcount[t])]
    /\ e_tpc' = [e_tpc EXCEPT ![t] = "critical"]
    /\ UNCHANGED <<e_exact, e_sample_size, e_occ, e_nb_thread, e_pc, e_index, e_next, e_results,
                   e_lock, e_km, e_tcount, e_left, notErrVars>>

\* the statement after the pragma run without waiting for the section to be free
critical_ignored(lock) == TRUE

\* #pragma omp critical: the section is free when no thread is inside
critical_free(lock) == lock = 0

\* #pragma omp critical: entered by one thread at a time
ErrEnter(t) ==
    /\ e_pc = "parallel" /\ e_tpc[t] = "critical"
    /\ critical_free(e_lock)
    /\ e_lock' = t
    /\ e_tpc' = [e_tpc EXCEPT ![t] = "write"]
    /\ UNCHANGED <<e_exact, e_sample_size, e_occ, e_nb_thread, e_pc, e_index, e_next, e_results,
                   e_km, e_tcount, e_left, e_total, notErrVars>>

\* results[kmer] = total, and the critical section is left
ErrWrite(t) ==
    /\ e_pc = "parallel" /\ e_tpc[t] = "write"
    /\ e_results' = Store(e_results, e_exact[e_km[t] + 1][1], e_total[t])
    /\ e_lock' = 0
    /\ e_tpc' = [e_tpc EXCEPT ![t] = "claim"]
    /\ UNCHANGED <<e_exact, e_sample_size, e_occ, e_nb_thread, e_pc, e_index, e_next,
                   e_km, e_tcount, e_left, e_total, notErrVars>>

\* the end of the parallel region: return(results)
ErrReturn ==
    /\ e_pc = "parallel"
    /\ \A t \in Threads : e_tpc[t] = "done"
    /\ e_pc' = "returned"
    /\ UNCHANGED <<e_exact, e_sample_size, e_occ, e_nb_thread, e_index, e_next, e_results, e_lock,
                   e_tpc, e_km, e_tcount, e_left, e_total, notErrVars>>

----------------------------------------------------------------------------
(* The functions main calls, as the results a whole call can have *)

\* parse_kmer_list: the set built from all the lines of an opened file
RECURSIVE parse_kmer_list_from(_, _, _)
parse_kmer_list_from(lines, i, kmer_set) ==
    IF i > Len(lines) THEN kmer_set
    ELSE parse_kmer_list_from(lines, i + 1, kmer_set \cup {kmer_of_line(lines[i])})

parse_kmer_list(lines) == parse_kmer_list_from(lines, 1, {})

\* sampleSequences: the window lists the loop can build along the order vec
RECURSIVE sample_from(_, _, _, _, _, _)
sample_from(reads, vec, i, nb_sample, cut_size, bot) ==
    IF ~(i < nb_sample /\ i < Len(reads)) THEN {<<>>}
    ELSE {<<w>> \o rest : w \in WindowsOf(reads[vec[i + 1] + 1], cut_size, bot),
                         rest \in sample_from(reads, vec, i + 1, nb_sample, cut_size, bot)}

\* whether a window of the call, along the order vec, is taken from outside its read
SampleOutOfBounds(reads, vec, nb_sample, cut_size, bot) ==
    \E i \in 1..Min(nb_sample, Len(reads)) : WindowOutOfBounds(reads[vec[i] + 1], cut_size, bot)

\* count_kmers: the while loop over one window
RECURSIVE count_window(_, _, _, _, _, _, _, _)
count_window(count, seq, i, n, k, threshold, kmer_set, base) ==
    IF ~(i < Len(seq)) THEN {count}
    ELSE LET m == next_kmer(n, base, seq[i + 1])
         IN  UNION {count_window(IF ~low /\ ~isForbiddenKmer(m, kmer_set)
                                 THEN Increment(count, m) ELSE count,
                                 seq, i + 1, m, k, threshold, kmer_set, base) :
                        low \in LowComplexityResults(m, k, threshold)}

RECURSIVE count_from(_, _, _, _, _, _, _)
count_from(count, seqs, idx, k, threshold, kmer_set, base) ==
    IF idx > Len(seqs) THEN {count}
    ELSE UNION {count_from(c, seqs, idx + 1, k, threshold, kmer_set, base) :
                    c \in UNION {count_window(count, seqs[idx], first_index(k), n, k, threshold,
                                              kmer_set, base) : n \in FirstKmers(seqs[idx], k)}}

count_kmers(seqs, k, threshold, kmer_set) ==
    UNION {count_from(EmptyCounter, seqs, 1, k, threshold, kmer_set, base) : base \in BaseMasks(k)}

\* whether the call reads the prefix of a window shorter than k-1
CountOutOfBounds(seqs, k) == \E w \in 1..Len(seqs) : Len(seqs[w]) < k - 1

\* errorCount: the total of one candidate from the occurrences the search delivers
RECURSIVE mark_occurrences(_, _, _)
mark_occurrences(tcount, occs, j) ==
    IF j > Len(occs) THEN tcount
    ELSE mark_occurrences(set_bit(tcount, occs[j][2], occs[j][1]), occs, j + 1)

candidate_total(occs, sample_size) ==
    total_of(mark_occurrences(reset_bit_fields(<<<<>>, <<>>, <<>>>>, sample_size), occs, 1))

\* errorCount: one total per candidate, for any occurrences the index search delivers
errorCount(sequences, exact_count) ==
    {[x \in {exact_count[i][1] : i \in 1..Len(exact_count)} |->
         candidate_total(occ[CHOOSE i \in 1..Len(exact_count) : exact_count[i][1] = x], Len(sequences))] :
        occ \in [1..Len(exact_count) -> OccurrenceLists(Len(sequences))]}

----------------------------------------------------------------------------
(* main *)

\* const float FREQ_THRESHOLD_WARNING = 0.1, as the fraction 1 / 10
FREQ_THRESHOLD_DIVISOR == 10

\* the k the low complexity threshold is given for
LC_BASE_K == 16

\* the forbidden k-mer files of a run: none given, one that cannot be opened,
\* one with a k-mer, an empty line and a line that is no k-mer
ForbiddenFiles ==
    {[given |-> FALSE, open |-> FALSE, lines |-> <<>>],
     [given |-> TRUE, open |-> FALSE, lines |-> <<>>],
     [given |-> TRUE, open |-> TRUE, lines |-> <<<<"A", "C">>, <<>>, <<"N", "C">>>>]}

\* the input files of a run: n reads, the i-th one i-1 symbols shorter than the first
MainInputs ==
    {[i \in 1..n |-> ReadOfLength(Max(0, len - (i - 1)))] : n \in 0..MaxReads, len \in 0..MaxReadLen}

\* getOptionValue(limit, parser, "lim") and getOptionValue(solid_km, parser, "sk"):
\* the runs checked all give the candidate limit (the default of 500 candidates
\* is beyond the bounds); solid_km stays at its default 0 unless it is given
OptionValues(cfg) ==
    /\ "lim" \in cfg.given
    /\ ("sk" \in cfg.given) = (cfg.solid_km # 0)

MainInit ==
    /\ m_cfg \in {cfg \in [k : {1, 3, 33},
                           sn : {1, MaxReads + 1},
                           sl : {MaxCut},
                           limit : {0, 2},
                           solid_km : {0, 2},
                           given : SUBSET {"lim", "sk"},
                           skip_end : BOOLEAN,
                           exact_out : BOOLEAN,
                           lc : {<<3, 2>>},
                           forbid_kmer : ForbiddenFiles,
                           input : MainInputs] : OptionValues(cfg)}
    /\ m_sn = m_cfg.sn
    /\ m_lc = m_cfg.lc
    /\ m_kmer_set = {}
    /\ m_seqs = <<>>
    /\ m_pc = "FORBIDDEN"
    /\ m_which_end = "none"
    /\ m_bottom = FALSE
    /\ m_sample = <<>>
    /\ m_count = EmptyCounter
    /\ m_first_n_vector = <<>>
    /\ m_error_counter = EmptyCounter
    /\ m_sorted_error_count = <<>>
    /\ m_warned = FALSE
    /\ m_outside = "none"
    /\ m_exit = "running"

MainIdle ==
    /\ m_cfg = <<>>
    /\ m_sn = 0
    /\ m_lc = <<0, 1>>
    /\ m_kmer_set = {}
    /\ m_seqs = <<>>
    /\ m_pc = "idle"
    /\ m_which_end = "none"
    /\ m_bottom = FALSE
    /\ m_sample = <<>>
    /\ m_count = EmptyCounter
    /\ m_first_n_vector = <<>>
    /\ m_error_counter = EmptyCounter
    /\ m_sorted_error_count = <<>>
    /\ m_warned = FALSE
    /\ m_outside = "none"
    /\ m_exit = "running"

notMainVars == <<codecVars, parseVars, sampleVars, countVars, selectVars, errVars>>

\* the run ends without reaching return 0
Fails(how) ==
    /\ m_pc' = "FAILED"
    /\ m_exit' = how

\* if (not forbid_kmer.empty()) kmer_set = parse_kmer_list(forbid_kmer)
MainForbidden ==
    /\ m_pc = "FORBIDDEN"
    /\ IF ~m_cfg.forbid_kmer.given
         THEN m_pc' = "CHECK_K" /\ UNCHANGED <<m_kmer_set, m_exit>>
         ELSE IF m_cfg.forbid_kmer.open
         THEN /\ m_kmer_set' = parse_kmer_list(m_cfg.forbid_kmer.lines)
              /\ m_pc' = "CHECK_K"
              /\ UNCHANGED m_exit
         ELSE Fails("exit 1") /\ UNCHANGED m_kmer_set
    /\ UNCHANGED <<m_cfg, m_sn, m_lc, m_seqs, m_which_end, m_bottom, m_sample, m_count,
                   m_first_n_vector, m_error_counter, m_sorted_error_count, m_warned, m_outside,
                   notMainVars>>

\* if (k < 2 or k > 32) throw; then lc = adjust_threshold(lc, 16, k)
MainCheckK ==
    /\ m_pc = "CHECK_K"
    /\ IF m_cfg.k < 2 \/ m_cfg.k > 32
         THEN Fails("throw invalid_argument") /\ UNCHANGED m_lc
         ELSE /\ m_lc' = adjust_threshold(m_lc, LC_BASE_K, m_cfg.k)
              /\ m_pc' = "LOAD"
              /\ UNCHANGED m_exit
    /\ UNCHANGED <<m_cfg, m_sn, m_kmer_set, m_seqs, m_which_end, m_bottom, m_sample, m_count,
                   m_first_n_vector, m_error_counter, m_sorted_error_count, m_warned, m_outside,
                   notMainVars>>

\* readRecords, then sn is clamped to the number of reads
MainLoad ==
    /\ m_pc = "LOAD"
    /\ m_seqs' = m_cfg.input
    /\ m_sn' = IF m_sn > Len(m_cfg.input) THEN Len(m_cfg.input) ELSE m_sn
    /\ m_bottom' = FALSE
    /\ m_which_end' = "start"
    /\ m_pc' = "SAMPLING"
    /\ UNCHANGED <<m_cfg, m_lc, m_kmer_set, m_sample, m_count, m_first_n_vector, m_error_counter,
                   m_sorted_error_count, m_warned, m_outside, m_exit, notMainVars>>

\* the input file cannot be opened: SeqFileIn throws
MainLoadFailed ==
    /\ m_pc = "LOAD"
    /\ Fails("throw io_error")
    /\ UNCHANGED <<m_cfg, m_sn, m_lc, m_kmer_set, m_seqs, m_which_end, m_bottom, m_sample, m_count,
                   m_first_n_vector, m_error_counter, m_sorted_error_count, m_warned, m_outside,
                   notMainVars>>

\* sample = sampleSequences(seqs, sn, sl, bottom, v)
MainSampling ==
    /\ m_pc = "SAMPLING"
    /\ \E vec \in ShuffledOrders(Len(m_seqs)) :
          /\ m_sample' \in sample_from(m_seqs, vec, 0, m_sn, m_cfg.sl, m_bottom)
          /\ m_outside' = IF SampleOutOfBounds(m_seqs, vec, m_sn, m_cfg.sl, m_bottom) /\ m_outside = "none"
                          THEN "suffix" ELSE m_outside
    /\ m_pc' = "EXACT_COUNT"
    /\ UNCHANGED <<m_cfg, m_sn, m_lc, m_kmer_set, m_seqs, m_which_end, m_bottom, m_count,
                   m_first_n_vector, m_error_counter, m_sorted_error_count, m_warned, m_exit,
                   notMainVars>>

\* the suffix taken from before the start of a read faults
MainSamplingFault ==
    /\ m_pc = "SAMPLING"
    /\ \E vec \in ShuffledOrders(Len(m_seqs)) :
          SampleOutOfBounds(m_seqs, vec, m_sn, m_cfg.sl, m_bottom)
    /\ m_outside' = "suffix"
    /\ Fails("fault")
    /\ UNCHANGED <<m_cfg, m_sn, m_lc, m_kmer_set, m_seqs, m_which_end, m_bottom, m_sample, m_count,
                   m_first_n_vector, m_error_counter, m_sorted_error_count, m_warned, notMainVars>>

\* count = count_kmers(sample, k, lc, kmer_set)
MainExactCount ==
    /\ m_pc = "EXACT_COUNT"
    /\ m_count' \in count_kmers(m_sample, m_cfg.k, m_lc, m_kmer_set)
    /\ m_outside' = IF CountOutOfBounds(m_sample, m_cfg.k) /\ m_outside = "none"
                    THEN "prefix" ELSE m_outside
    /\ m_pc' = "SELECT_CANDIDATES"
    /\ UNCHANGED <<m_cfg, m_sn, m_lc, m_kmer_set, m_seqs, m_which_end, m_bottom, m_sample,
                   m_first_n_vector, m_error_counter, m_sorted_error_count, m_warned, m_exit,
                   notMainVars>>

\* the prefix read past the end of a short window faults
MainExactCountFault ==
    /\ m_pc = "EXACT_COUNT"
    /\ CountOutOfBounds(m_sample, m_cfg.k)
    /\ m_outside' = "prefix"
    /\ Fails("fault")
    /\ UNCHANGED <<m_cfg, m_sn, m_lc, m_kmer_set, m_seqs, m_which_end, m_bottom, m_sample, m_count,
                   m_first_n_vector, m_error_counter, m_sorted_error_count, m_warned, notMainVars>>

\* first_n_vector = get_solid_kmers(count, solid_km) or get_most_frequent(count, limit)
MainSelect ==
    /\ m_pc = "SELECT_CANDIDATES"
    /\ m_first_n_vector' \in IF m_cfg.solid_km # 0 THEN get_solid_kmers(m_count, m_cfg.solid_km)
                             ELSE get_most_frequent(m_count, m_cfg.limit)
    /\ m_pc' = IF m_cfg.exact_out THEN "EXPORT_EXACT" ELSE "APPROX_COUNT"
    /\ UNCHANGED <<m_cfg, m_sn, m_lc, m_kmer_set, m_seqs, m_which_end, m_bottom, m_sample, m_count,
                   m_error_counter, m_sorted_error_count, m_warned, m_outside, m_exit, notMainVars>>

\* success = exportCounter(first_n_vector, k, exact_out + "." + which_end)
MainExportExact ==
    /\ m_pc = "EXPORT_EXACT"
    /\ \E success \in BOOLEAN :
          IF success THEN m_pc' = "APPROX_COUNT" /\ UNCHANGED m_exit
          ELSE Fails("return 1")
    /\ UNCHANGED <<m_cfg, m_sn, m_lc, m_kmer_set, m_seqs, m_which_end, m_bottom, m_sample, m_count,
                   m_first_n_vector, m_error_counter, m_sorted_error_count, m_warned, m_outside,
                   notMainVars>>

\* error_counter = errorCount(...); sorted_error_count = get_most_frequent(error_counter, limit)
MainApproxCount ==
    /\ m_pc = "APPROX_COUNT"
    /\ \E counter \in errorCount(m_sample, m_first_n_vector) :
          /\ m_error_counter' = counter
          /\ m_sorted_error_count' \in get_most_frequent(counter, m_cfg.limit)
    /\ m_pc' = "EXPORT"
    /\ UNCHANGED <<m_cfg, m_sn, m_lc, m_kmer_set, m_seqs, m_which_end, m_bottom, m_sample, m_count,
                   m_first_n_vector, m_warned, m_outside, m_exit, notMainVars>>

\* success = exportCounter(sorted_error_count, k, output + "." + which_end)
MainExport ==
    /\ m_pc = "EXPORT"
    /\ \E success \in BOOLEAN :
          IF success THEN m_pc' = "WEAK_SIGNAL" /\ UNCHANGED m_exit
          ELSE Fails("return 1")
    /\ UNCHANGED <<m_cfg, m_sn, m_lc, m_kmer_set, m_seqs, m_which_end, m_bottom, m_sample, m_count,
                   m_first_n_vector, m_error_counter, m_sorted_error_count, m_warned, m_outside,
                   notMainVars>>

\* the values sorted_error_count[0].second can deliver: the first count, or,
\* for an empty vector, whatever lies where its first element would be
FirstCounts(sorted) ==
    IF Len(sorted) > 0 THEN {sorted[1][2]} ELSE {0, MaxCount + MaxSample}

\* if (sorted_error_count[0].second < FREQ_THRESHOLD_WARNING * sn) warn
MainWeakSignal ==
    /\ m_pc = "WEAK_SIGNAL"
    /\ \E first \in FirstCounts(m_sorted_error_count) :
          m_warned' = (first * FREQ_THRESHOLD_DIVISOR < m_sn)
    /\ m_outside' = IF Len(m_sorted_error_count) = 0 THEN "sorted_error_count[0]" ELSE m_outside
    /\ m_pc' = "NEXT_END"
    /\ UNCHANGED <<m_cfg, m_sn, m_lc, m_kmer_set, m_seqs, m_which_end, m_bottom, m_sample, m_count,
                   m_first_n_vector, m_error_counter, m_sorted_error_count, m_exit, notMainVars>>

\* reading the first element of an empty vector faults
MainWeakSignalFault ==
    /\ m_pc = "WEAK_SIGNAL"
    /\ Len(m_sorted_error_count) = 0
    /\ m_outside' = "sorted_error_count[0]"
    /\ Fails("fault")
    /\ UNCHANGED <<m_cfg, m_sn, m_lc, m_kmer_set, m_seqs, m_which_end, m_bottom, m_sample, m_count,
                   m_first_n_vector, m_error_counter, m_sorted_error_count, m_warned, notMainVars>>

\* if (skip_end) break, left out
never_breaks(skip_end) == FALSE

\* if (skip_end) { ... break; }
loop_breaks(skip_end) == skip_end

\* clear(sample); break if skip_end, else bottom = true and the loop goes on
\* with the next element of ends; after the last one main returns 0
MainNextEnd ==
    /\ m_pc = "NEXT_END"
    /\ m_sample' = <<>>
    /\ m_count' = EmptyCounter
    /\ m_first_n_vector' = <<>>
    /\ m_error_counter' = EmptyCounter
    /\ m_sorted_error_count' = <<>>
    /\ IF loop_breaks(m_cfg.skip_end)
         THEN m_pc' = "DONE" /\ m_exit' = "return 0" /\ UNCHANGED <<m_bottom, m_which_end>>
         ELSE /\ m_bottom' = TRUE
              /\ IF m_which_end = "start"
                   THEN m_which_end' = "end" /\ m_pc' = "SAMPLING" /\ UNCHANGED m_exit
                   ELSE m_pc' = "DONE" /\ m_exit' = "return 0" /\ UNCHANGED m_which_end
    /\ UNCHANGED <<m_cfg, m_sn, m_lc, m_kmer_set, m_seqs, m_warned, m_outside, notMainVars>>

----------------------------------------------------------------------------
(* Specifications *)

SpecCodecInit == CodecInit /\ ParseIdle /\ SampleIdle /\ CountIdle /\ SelectIdle /\ ErrIdle /\ MainIdle
SpecCodecNext == Encode \/ Decode
SpecCodec == SpecCodecInit /\ [][SpecCodecNext]_vars

SpecParseInit == ParseInit /\ CodecIdle /\ SampleIdle /\ CountIdle /\ SelectIdle /\ ErrIdle /\ MainIdle
SpecParseNext == ParseOpen \/ ParseOpenFailed \/ ParseLine \/ ParseReturn
SpecParse == SpecParseInit /\ [][SpecParseNext]_vars

SpecSampleInit == SampleInit /\ CodecIdle /\ ParseIdle /\ CountIdle /\ SelectIdle /\ ErrIdle /\ MainIdle
SpecSampleNext == SampleShuffle \/ SampleFetch \/ SampleFault \/ SampleReturn
SpecSample == SpecSampleInit /\ [][SpecSampleNext]_vars

SpecCountInit == CountInit /\ CodecIdle /\ ParseIdle /\ SampleIdle /\ SelectIdle /\ ErrIdle /\ MainIdle
SpecCountNext == CountStart \/ CountFirst \/ CountFault \/ CountSlide \/ CountNextWindow \/ CountReturn
SpecCount == SpecCountInit /\ [][SpecCountNext]_vars

SpecSelectInit == SelectInit /\ CodecIdle /\ ParseIdle /\ SampleIdle /\ CountIdle /\ ErrIdle /\ MainIdle
SpecSelectNext == MostFrequent \/ SolidKmers
SpecSelect == SpecSelectInit /\ [][SpecSelectNext]_vars

SpecErrInit == ErrInit /\ CodecIdle /\ ParseIdle /\ SampleIdle /\ CountIdle /\ SelectIdle /\ MainIdle
SpecErrNext ==
    \/ ErrIndex
    \/ ErrFork
    \/ \E t \in Threads : ErrClaim(t)
    \/ \E t \in Threads : ErrIdleThread(t)
    \/ \E t \in Threads : ErrReset(t)
    \/ \E t \in Threads : ErrOccurrence(t)
    \/ \E t \in Threads : ErrTotal(t)
    \/ \E t \in Threads : ErrEnter(t)
    \/ \E t \in Threads : ErrWrite(t)
    \/ ErrReturn
SpecErr == SpecErrInit /\ [][SpecErrNext]_vars

SpecMainInit == MainInit /\ CodecIdle /\ ParseIdle /\ SampleIdle /\ CountIdle /\ SelectIdle /\ ErrIdle
SpecMainNext ==
    \/ MainForbidden
    \/ MainCheckK
    \/ MainLoad
    \/ MainLoadFailed
    \/ MainSampling
    \/ MainSamplingFault
    \/ MainExactCount
    \/ MainExactCountFault
    \/ MainSelect
    \/ MainExportExact
    \/ MainApproxCount
    \/ MainExport
    \/ MainWeakSignal
    \/ MainWeakSignalFault
    \/ MainNextEnd
SpecMain == SpecMainInit /\ [][SpecMainNext]_vars

----------------------------------------------------------------------------
(* Sums used by the properties *)

RECURSIVE SumSeq(_, _)
SumSeq(f, n) == IF n = 0 THEN 0 ELSE f[n] + SumSeq(f, n - 1)

RECURSIVE SumCounts(_, _)
SumCounts(count, keys) ==
    IF keys = {} THEN 0
    ELSE LET x == CHOOSE y \in keys : TRUE IN count[x] + SumCounts(count, keys \ {x})

\* max(0, L - k + 1)
KmersIn(L, k) == Max(0, L - k + 1)

----------------------------------------------------------------------------
(* C2: for every nucleotide string s of length k with 2 <= k <= 32,
   int2dna(dna2int(s), k) = s, and the two highest bits of the 2k-bit packed
   value hold the code of the first symbol of s. *)
C2_RoundTrip ==
    (c_pc = "decoded" /\ Len(c_seq) >= 2 /\ Len(c_seq) <= 32) =>
        /\ c_out = c_seq
        /\ c_value[2 * Len(c_seq) - 1] + 2 * c_value[2 * Len(c_seq)] = c_seq[1]

C2_Witness ==
    /\ c_pc = "decoded"
    /\ Len(c_seq) = 32
    /\ c_seq[1] = 3
    /\ c_out = c_seq

(* C9: a forbidden k-mer file with a line that is empty or holds a symbol
   outside A, C, G, T stops the run; no such line is consumed and turned
   into a member of the set. *)
C9_BadLineIsFatal ==
    /\ \A j \in 1..p_i : ValidKmerLine(p_file.lines[j])
    /\ p_pc = "returned" => \A j \in 1..Len(p_file.lines) : ValidKmerLine(p_file.lines[j])

(* C3: sampleSequences on a collection of size S with requested count n
   returns exactly min(n, S) windows, taken from pairwise distinct reads,
   with from_end false and with from_end true. *)
C3_SampleSize ==
    s_pc = "returned" =>
        /\ Len(s_sample) = Min(s_nb_sample, Len(s_reads))
        /\ Len(s_ids) = Len(s_sample)
        /\ \A a, b \in 1..Len(s_ids) : s_ids[a] = s_ids[b] => a = b

C3_Witness ==
    /\ s_pc = "returned"
    /\ s_bot
    /\ Len(s_reads) = 2
    /\ s_nb_sample = 2
    /\ Len(s_sample) = 2
    /\ s_ids[1] # s_ids[2]

(* C4: every window emitted for a read of length L with window length W is
   the read's prefix of length min(W, L) with from_end false and its suffix
   of length min(W, L) with from_end true, for every L >= 0. *)
C4_WindowIsClippedEnd ==
    \A j \in 1..Len(s_sample) :
        LET read == s_reads[s_ids[j] + 1]
            n == Min(s_cut, Len(read))
        IN  s_sample[j] = IF s_bot THEN SubSeq(read, Len(read) - n + 1, Len(read))
                          ELSE SubSeq(read, 1, n)

(* C5: count_kmers extracts exactly max(0, L-k+1) k-mers from a window of
   length L, so the counts of the table never sum to more than the sum of
   max(0, L-k+1) over the windows, and a window shorter than k adds nothing. *)
C5_Extractions ==
    /\ \A w \in 1..Len(k_extr) :
          /\ k_extr[w] <= KmersIn(Len(k_seqs[w]), k_k)
          /\ (w <= k_idx) => k_extr[w] = KmersIn(Len(k_seqs[w]), k_k)
          /\ Len(k_seqs[w]) < k_k => k_extr[w] = 0
    /\ SumCounts(k_count, DOMAIN k_count) <= SumSeq(k_extr, Len(k_extr))
    /\ k_pc = "returned" => Len(k_extr) = Len(k_seqs)

C5_Witness ==
    /\ k_pc = "returned"
    /\ Len(k_seqs) = 2
    /\ Len(k_seqs[1]) < k_k
    /\ Len(k_seqs[2]) > k_k
    /\ k_extr[2] = Len(k_seqs[2]) - k_k + 1
    /\ SumCounts(k_count, DOMAIN k_count) = 1

\* the counts of a pair vector never increase along it
Descending(v) == \A a, b \in 1..Len(v) : a < b => v[a][2] >= v[b][2]

(* C6: get_most_frequent(table, limit) returns min(limit, number of keys)
   pairs of the table, each key once, in descending order of count; an empty
   table gives an empty list. *)
C6_MostFrequent ==
    (t_pc = "returned" /\ t_fn = "get_most_frequent") =>
        /\ Len(t_out) = Min(t_arg, Cardinality(DOMAIN t_table))
        /\ Descending(t_out)
        /\ \A a \in 1..Len(t_out) : t_out[a] \in PairsOf(t_table)
        /\ \A a, b \in 1..Len(t_out) : t_out[a][1] = t_out[b][1] => a = b
        /\ \A a \in 1..Len(t_out) : \A x \in DOMAIN t_table :
              t_table[x] > t_out[a][2] => \E b \in 1..Len(t_out) : t_out[b][1] = x
        /\ DOMAIN t_table = {} => t_out = <<>>

C6_Witness ==
    /\ t_pc = "returned"
    /\ t_fn = "get_most_frequent"
    /\ Cardinality(DOMAIN t_table) = 3
    /\ t_arg = 2
    /\ Len(t_out) = 2
    /\ t_out[1][2] > t_out[2][2]
    /\ \E x \in DOMAIN t_table : t_table[x] < t_out[2][2]

(* C7: get_solid_kmers(table, min_count) returns exactly the entries of the
   table whose count is >= min_count, in descending order of count; the
   result may be empty. *)
C7_SolidKmers ==
    (t_pc = "returned" /\ t_fn = "get_solid_kmers") =>
        /\ {t_out[a] : a \in 1..Len(t_out)} = {pr \in PairsOf(t_table) : pr[2] >= t_arg}
        /\ \A a, b \in 1..Len(t_out) : t_out[a] = t_out[b] => a = b
        /\ Descending(t_out)

C7_Witness ==
    /\ t_pc = "returned"
    /\ t_fn = "get_solid_kmers"
    /\ Cardinality(DOMAIN t_table) = 3
    /\ Len(t_out) = 2
    /\ t_out[2][2] = t_arg
    /\ t_out[1][2] > t_arg

\* the distinct (window, errors) pairs among the occurrences of candidate i
DistinctOccurrences(i) == {e_occ[i][j] : j \in DOMAIN e_occ[i]}

(* C1: whatever the number of threads and the order in which they take the
   candidates and run, the total stored for a candidate is the number of
   distinct (window, errors) pairs among its occurrences, and at the end
   every candidate has its total. *)
C1_TotalIsDistinctPairs ==
    /\ \A i \in 1..Len(e_exact) :
          e_exact[i][1] \in DOMAIN e_results =>
              e_results[e_exact[i][1]] = Cardinality(DistinctOccurrences(i))
    /\ e_pc = "returned" => DOMAIN e_results = {e_exact[i][1] : i \in 1..Len(e_exact)}

C1_Witness ==
    /\ e_pc = "returned"
    /\ e_nb_thread = 1
    /\ Len(e_exact) = 2
    /\ e_sample_size = 2
    /\ Cardinality(DistinctOccurrences(1)) = 2
    /\ Len(e_occ[2]) = 2
    /\ e_results[e_exact[1][1]] = 2
    /\ e_results[e_exact[2][1]] = 1

\* the stage of the pipeline a position of main belongs to, 0 outside the loop
StageOf(pc) ==
    CASE pc = "SAMPLING" -> 1
      [] pc = "EXACT_COUNT" -> 2
      [] pc \in {"SELECT_CANDIDATES", "EXPORT_EXACT"} -> 3
      [] pc = "APPROX_COUNT" -> 4
      [] pc \in {"EXPORT", "WEAK_SIGNAL", "NEXT_END"} -> 5
      [] OTHER -> 0

C8_Step ==
    /\ (m_pc' = "SAMPLING" /\ m_pc # "SAMPLING") =>
          \/ m_pc = "LOAD" /\ m_which_end' = "start" /\ ~m_bottom'
          \/ /\ m_pc = "NEXT_END" /\ m_which_end = "start" /\ ~m_cfg.skip_end
             /\ m_which_end' = "end" /\ m_bottom'
    /\ (StageOf(m_pc) > 0 /\ StageOf(m_pc') > 0 /\ m_pc' # "SAMPLING") =>
          /\ m_which_end' = m_which_end
          /\ m_bottom' = m_bottom
          /\ StageOf(m_pc') \in {StageOf(m_pc), StageOf(m_pc) + 1}
    /\ (StageOf(m_pc) = 0 /\ StageOf(m_pc') > 0) => m_pc' = "SAMPLING"
    /\ (m_pc' = "DONE" /\ m_pc # "DONE") =>
          /\ m_pc = "NEXT_END"
          /\ m_which_end = (IF m_cfg.skip_end THEN "start" ELSE "end")
    /\ m_which_end' = "end" => ~m_cfg.skip_end
    /\ m_pc \in {"DONE", "FAILED"} => m_pc' = m_pc

(* C8: for each end the driver goes through SAMPLING, EXACT_COUNT,
   SELECT_CANDIDATES, APPROX_COUNT, EXPORT in that order and never back; the
   "start" end comes first (from_end false), then the "end" end (from_end
   true); it is done after both ends, or after "start" alone when skip_end is
   set, and with skip_end set the "end" end is never processed. *)
C8_StageOrder == [][C8_Step]_vars

C8_Witness ==
    /\ m_pc = "DONE"
    /\ m_which_end = "end"
    /\ m_bottom
    /\ ~m_cfg.skip_end
    /\ Len(m_seqs) = 2

(* C10: a run whose ranked list of approximate counts is empty, as with an
   empty read collection, goes through EXPORT to the end without reading an
   element of the empty list, the weak-signal check included. *)
C10_EmptyListNotRead ==
    /\ m_outside # "sorted_error_count[0]"
    /\ (Len(m_seqs) = 0 /\ m_pc = "FAILED") => m_exit # "fault"

\* a configuration main must refuse: a k-mer size outside [2,32], or the
\* candidate limit and the solid count threshold both set
ConfigurationError ==
    \/ m_cfg.k < 2
    \/ m_cfg.k > 32
    \/ {"lim", "sk"} \subseteq m_cfg.given

\* parse_kmer_list has read the forbidden k-mer file
ForbiddenListLoaded ==
    /\ m_cfg.forbid_kmer.given
    /\ m_cfg.forbid_kmer.open
    /\ m_pc # "FORBIDDEN"

(* C11: a run whose configuration is in error (k outside [2,32], or both
   selection policies set) never loads the forbidden k-mer list, never loads
   the reads and never samples an end, and when it has stopped it has stopped
   on the configuration error. *)
C11_ConfigurationErrorFirst ==
    (m_pc # "idle" /\ ConfigurationError) =>
        /\ ~ForbiddenListLoaded
        /\ m_pc \in {"FORBIDDEN", "CHECK_K", "FAILED"}
        /\ m_seqs = <<>>
        /\ m_which_end = "none"
        /\ (m_pc = "FAILED" => m_exit = "throw invalid_argument")

\* the window being counted holds nucleotides only
WindowIsDna == \A j \in 1..Len(k_seqs[k_idx + 1]) : k_seqs[k_idx + 1][j] \in Nucleotides

(* C12: in count_kmers, for every k in [2,32], once the loop has processed
   position i >= k-1 of a window of nucleotides, the running value n is
   dna2int of the k symbols ending at position i, for k = 27..32 as well. *)
C12_RunningValue ==
    (k_pc = "slide" /\ k_i >= k_k /\ WindowIsDna) =>
        k_n = dna2int(SubSeq(k_seqs[k_idx + 1], k_i - k_k + 1, k_i))

(* C13: the score of haveLowComplexity is never computed with a divisor of
   zero: k_den, the divisor 2*(k-2) of the last score the loop of count_kmers
   had computed, is never 0, k = 2 included. *)
C13_DivisorNeverZero == k_den # 0

\* the (read id, errors) pairs whose bit is set in the bit fields of thread t
BitsSet(t) ==
    {p \in (0..(e_sample_size - 1)) \X (0..MAXERR) : e_tcount[t][p[2] + 1][p[1] + 1]}

\* the occurrences of its candidate the search of thread t has delivered so far
Delivered(t) == {e_occ[e_km[t] + 1][j] : j \in DOMAIN e_occ[e_km[t] + 1] \ e_left[t]}

(* C14: during the parallel stage of errorCount at most one worker is writing
   to the result table; the index is built before any worker exists and stays
   built; the bits set in a worker's three bit fields are exactly the
   occurrences its own search of its current candidate has delivered, so the
   fields are private and were reset before the search; and at the end the
   table has exactly one entry for each k-mer of the candidate list. *)
C14_Discipline ==
    /\ Cardinality({t \in Threads : e_tpc[t] = "write"}) <= 1
    /\ \A t \in Threads : e_tpc[t] = "write" => e_lock = t
    /\ e_pc \in {"fork", "parallel", "returned"} => e_index = "built"
    /\ \A t \in Threads : e_tpc[t] # "unborn" => e_index = "built"
    /\ \A t \in Threads : e_tpc[t] \in {"find", "critical", "write"} => BitsSet(t) = Delivered(t)
    /\ e_pc = "returned" =>
          /\ DOMAIN e_results = {e_exact[i][1] : i \in 1..Len(e_exact)}
          /\ Cardinality(DOMAIN e_results) = Len(e_exact)

\* one worker writes its total while the other, its search done, waits at the section
C14_Witness ==
    /\ e_nb_thread = 2
    /\ e_tpc[1] = "write"
    /\ e_tpc[2] = "critical"
    /\ e_lock = 1
    /\ BitsSet(1) # {}
    /\ BitsSet(2) # {}
    /\ e_km[1] # e_km[2]

============================================================================
